---- MODULE Spec2Model ----
(***************************************************************************)
(* Grammar registry of vscode-comment-translate-plus (src/src/util/ext.ts):  *)
(* collection of grammar contributions (extractGrammarExtensions,            *)
(* getGrammerExtensions, getCanLanguageIds), TMScopeRegistry,                *)
(* TextMateService (constructor, _handleGrammarExtensionPointUser,           *)
(* getInjections, loadGrammar, createGrammar) and the one-time              *)
(* pattern-engine initialisation doLoadOnigasm.                              *)
(*                                                                           *)
(* Four specifications: Spec (the constructor and the Registry's queries),   *)
(* SpecRequests (createGrammar up to the call of the Registry, and           *)
(* doLoadOnigasm), SpecLoads (createGrammar to its end, and the loadGrammar  *)
(* option) and SpecOptions (createGrammar to its end with both options,      *)
(* loadGrammar and getInjections).  The vscode-textmate Registry itself is   *)
(* a library: when it calls an option, and what it makes of a loaded         *)
(* grammar, is left open.                                                    *)
(*                                                                           *)
(* Scope names, language names and paths are JavaScript strings and are      *)
(* modelled as TLA+ strings; String.prototype.includes, RegExp.test and      *)
(* path.join are computed character by character.  Scope names are           *)
(* non-empty dotted identifiers (spec.md section 3).                         *)
(***************************************************************************)
EXTENDS Integers, Sequences, FiniteSets, TLC

----------------------------------------------------------------------------
(* Bounds of the model *)

\* packages in the world (installed extensions plus bundled resource dirs)
MaxPackages == 2
\* createGrammar requests issued to one service
MaxCalls == 2
\* invocations of the getOnigLib option (doLoadOnigasm) by the Registry
MaxOnigCalls == 3
\* invocations of the loadGrammar option by the Registry
MaxLoads == 2

----------------------------------------------------------------------------
(* JavaScript values *)

\* the value undefined
Undefined == [tag |-> "undefined"]

\* the value null
Null == [tag |-> "null"]

\* a defined value v (an object, an array, a non-empty result)
Def(v) == [tag |-> "value", v |-> v]

\* objects and arrays are truthy even when empty; undefined and null are not
Truthy(x) == x.tag = "value"

\* a string is truthy unless empty; an absent string property is modelled ""
TruthyStr(s) == s # ""

\* obj[key] on an object used as a dictionary, and Map.prototype.get
ObjGet(obj, key) == IF key \in DOMAIN obj THEN Def(obj[key]) ELSE Undefined

\* obj[key] = value, and Map.prototype.set: insert or overwrite one key
ObjSet(obj, key, value) == [k \in (DOMAIN obj) \cup {key} |-> IF k = key THEN value ELSE obj[k]]

\* the object with no own keys ({} , Object.create(null), new Map())
EmptyObj == <<>>

\* Array.prototype.includes on an array modelled as a sequence
ArrIncludes(arr, x) == \E i \in 1..Len(arr) : arr[i] = x

\* a prefix test in place of the substring test (String.prototype.startsWith)
StrIncludesPrefixOnly(s, pat) == Len(pat) <= Len(s) /\ SubSeq(s, 1, Len(pat)) = pat

\* String.prototype.includes: pat occurs in s as a contiguous substring
StrIncludes(s, pat) == \E i \in 1..(Len(s) - Len(pat) + 1) : SubSeq(s, i, i + Len(pat) - 1) = pat

\* characters the regular-expression dot does not match
LineTerminators == {"\n", "\r"}

\* the pattern with the star lost: "jsdoc", one character, "injection"
JsdocInjectionTestAdjacent(s) == \E i \in 1..(Len(s) - 14) :
        /\ SubSeq(s, i, i + 4) = "jsdoc"
        /\ SubSeq(s, i + 5, i + 5) \notin LineTerminators
        /\ SubSeq(s, i + 6, i + 14) = "injection"

\* /jsdoc.*injection/.test(s): "jsdoc", any run of non-line-terminators, "injection"

JsdocInjectionTest(s) == \E i \in 1..(Len(s) - 4) : \E j \in (i + 5)..(Len(s) - 8) :
        /\ SubSeq(s, i, i + 4) = "jsdoc"
        /\ SubSeq(s, j, j + 8) = "injection"
        /\ \A k \in (i + 5)..(j - 1) : SubSeq(s, k, k) \notin LineTerminators

----------------------------------------------------------------------------
(* path.join(extensionLocation, syntax.path) *)

RECURSIVE SplitPath(_, _, _)
\* the "/"-separated segments of s from position i on, cur being the segment read so far
SplitPath(s, i, cur) ==
    IF i > Len(s) THEN <<cur>>
    ELSE IF SubSeq(s, i, i) = "/" THEN <<cur>> \o SplitPath(s, i + 1, "")
    ELSE SplitPath(s, i + 1, cur \o SubSeq(s, i, i))

RECURSIVE NormalizeSegments(_, _)
\* drop "" and ".", let ".." remove the segment before it (at the root: nothing)
NormalizeSegments(segs, acc) ==
    IF segs = <<>> THEN acc
    ELSE LET h == Head(segs) IN
         IF h = "" \/ h = "." THEN NormalizeSegments(Tail(segs), acc)
         ELSE IF h = ".."
              THEN NormalizeSegments(Tail(segs), SubSeq(acc, 1, Len(acc) - 1))
         ELSE NormalizeSegments(Tail(segs), Append(acc, h))

RECURSIVE JoinSegments(_)
JoinSegments(segs) ==
    IF segs = <<>> THEN ""
    ELSE IF Len(segs) = 1 THEN segs[1]
    ELSE segs[1] \o "/" \o JoinSegments(Tail(segs))

\* path.join of an absolute directory and a relative path (POSIX)
PathJoin(dir, rel) == "/" \o JoinSegments(NormalizeSegments(SplitPath(dir \o "/" \o rel, 1, ""), <<>>))

----------------------------------------------------------------------------
(* Program constants *)

\* StandardTokenType
StandardTokenTypeOther == 0
StandardTokenTypeComment == 1
StandardTokenTypeString == 2

\* LanguageId.PlainText
LanguageIdPlainText == 1

\* the first language id getGrammerExtensions hands to extractGrammarExtensions
FirstLanguageId == 2

\* ctx.extensionPath: the root directory of this extension
CtxExtensionPath == "/self"

\* TextMateService.PROBLEMATIC_INJECTIONS
PROBLEMATIC_INJECTIONS == <<"documentation.injection.ts", "documentation.injection.js.jsx">>

----------------------------------------------------------------------------
(* The world: installed extensions and bundled resource directories *)

\* an ITMSyntaxExtensionPoint as found in contributes.grammars
Grammar(language, scopeName, path, embeddedLanguages, tokenTypes, injectTo) ==
    [language |-> language, scopeName |-> scopeName, path |-> path,
     embeddedLanguages |-> embeddedLanguages, tokenTypes |-> tokenTypes, injectTo |-> injectTo]

\* a package.json with contributes.languages and contributes.grammars
PackageJSON(languages, grammars) ==
    [contributes |-> Def([languages |-> languages, grammars |-> grammars])]

\* contributes.languages entries: only their id (the language name) is read
LanguageEntries(names) == [i \in 1..Len(names) |-> [id |-> names[i]]]

TypescriptBasics ==
    [extensionPath |-> "/ext/typescript-basics",
     packageJSON |-> PackageJSON(Def(LanguageEntries(<<"typescript", "typescriptreact">>)), Def(<<
        Grammar("typescript", "source.ts", "./syntaxes/ts.json", Undefined,
                Def(("entity.name.type.instance.jsdoc" :> "other") @@ ("string.quoted" :> "string")
                    @@ ("comment.block" :> "comment") @@ ("meta.odd" :> "regex")), Undefined),
        Grammar("typescriptreact", "source.tsx", "./syntaxes/tsx.json",
                Def("meta.tag.tsx" :> "jsx-tags"), Undefined, Undefined),
        Grammar("", "documentation.injection.ts", "./syntaxes/jsdoc.ts.json",
                Undefined, Undefined, Def(<<"source.ts", "source.tsx">>)) >>))]

JavascriptBasics ==
    [extensionPath |-> "/ext/javascript",
     packageJSON |-> PackageJSON(Def(LanguageEntries(<<"javascript">>)), Def(<<
        Grammar("javascript", "source.js", "./syntaxes/js.json",
                Def("meta.embedded.css" :> "css"), Undefined, Undefined),
        Grammar("jsdoc", "documentation.injection.js.jsx", "./syntaxes/jsdoc.js.json",
                Def("comment.block.documentation" :> "typescript"), Undefined,
                Def(<<"source.js">>)) >>))]

StyledComponents ==
    [extensionPath |-> "/ext/styled",
     packageJSON |-> PackageJSON(Def(LanguageEntries(<<"css">>)), Def(<<
        Grammar("", "styled.injection", "syntaxes/styled.json",
                Def(("meta.embedded.css" :> "css") @@ ("meta.embedded.scss" :> "scss")), Undefined,
                Def(<<"source.js", "source.ts", "source.tsx">>)) >>))]

InlineSql ==
    [extensionPath |-> "/ext/sql",
     packageJSON |-> PackageJSON(Undefined, Def(<<
        Grammar("sql", "inline.sql", "../shared/sql.json",
                Def("meta.embedded.css" :> "typescript"), Undefined,
                Def(<<"source.js">>)),
        Grammar("", "inline.sql.comment", "sqlc.json", Undefined, Undefined,
                Def(<<"source.vue", "source.js">>)) >>))]

JsdocExtra ==
    [extensionPath |-> "/ext/jsdoc-extra",
     packageJSON |-> PackageJSON(Def(LanguageEntries(<<"vue">>)), Def(<<
        Grammar("", "text.jsdoc.type.injection", "a.json",
                Def("meta.embedded.css" :> "vue"), Undefined, Def(<<"source.js">>)),
        Grammar("vue", "source.vue", "vue.json", Undefined, Undefined, Undefined),
        Grammar("vue", "my.documentation.injection.vue", "b.json",
                Def("meta.embedded.vue" :> "vue"), Undefined, Def(<<"source.js", "source.vue">>)),
        Grammar("", "jsdoc.inject", "c.json", Undefined, Undefined, Def(<<"source.js">>)) >>))]

\* contributes no grammars: dropped by extractGrammarExtensions
Logger ==
    [extensionPath |-> "/ext/logger",
     packageJSON |-> PackageJSON(Def(LanguageEntries(<<"log">>)), Undefined)]

TypescriptNightly ==
    [extensionPath |-> "/ext/ts-nightly",
     packageJSON |-> PackageJSON(Def(LanguageEntries(<<"typescript">>)), Def(<<
        Grammar("typescript", "source.ts", "ts.json",
                Def("meta.embedded.x" :> "css"), Undefined, Undefined) >>))]

Markdown ==
    [extensionPath |-> "/ext/markdown",
     packageJSON |-> PackageJSON(Def(LanguageEntries(<<"markdown">>)), Def(<<
        Grammar("markdown", "text.html.markdown", "md.json",
                Def("meta.embedded.block.javascript" :> "javascript"), Undefined, Undefined),
        Grammar("log", "text.log", "log.json", Undefined, Undefined, Undefined) >>))]

\* a package whose injections contribute the same embedded scope as their target, and
\* which contributes two of its injection scopes a second time
VueTools ==
    [extensionPath |-> "/ext/vue-tools",
     packageJSON |-> PackageJSON(Def(LanguageEntries(<<"vue", "html", "pug">>)), Def(<<
        Grammar("vue", "source.vue", "vue.json",
                Def(("meta.template" :> "html") @@ ("meta.style" :> "css")), Undefined, Undefined),
        Grammar("", "vue.pug", "pug.json",
                Def("meta.template" :> "pug"), Undefined, Def(<<"source.vue">>)),
        Grammar("", "vue.html", "html.json",
                Def(("meta.template" :> "vue") @@ ("meta.script" :> "typescript")), Undefined,
                Def(<<"source.vue">>)),
        Grammar("", "vue.pug", "pug2.json", Undefined, Undefined, Def(<<"source.vue">>)),
        Grammar("", "vue.html", "html2.json", Undefined, Undefined, Undefined) >>))]

\* what extensions.all may hold
InstalledExtensions ==
    {TypescriptBasics, JavascriptBasics, StyledComponents, InlineSql, JsdocExtra, Logger,
     TypescriptNightly, Markdown, VueTools}

\* the entries the resources directory of this extension may hold
ResourceDirs == {"typescript", "javascript", "icons"}

\* the parsed resources/<dir>/package.json
ResourcePackageJSON(dir) ==
    IF dir = "typescript" THEN
        PackageJSON(Def(LanguageEntries(<<"typescript", "typescriptreact">>)), Def(<<
            Grammar("typescript", "source.ts", "./syntaxes/TypeScript.tmLanguage.json",
                    Undefined, Def("comment" :> "comment"), Undefined),
            Grammar("typescriptreact", "source.tsx", "./syntaxes/TypeScriptReact.tmLanguage.json",
                    Undefined, Undefined, Undefined) >>))
    ELSE
        PackageJSON(Def(LanguageEntries(<<"javascript">>)), Def(<<
            Grammar("javascript", "source.js", "./syntaxes/JavaScript.tmLanguage.json",
                    Undefined, Undefined, Undefined) >>))

\* the sequences over S of length at most n without repeated elements
DistinctSeqs(S, n) ==
    UNION {{q \in [1..k -> S] : \A i, j \in 1..k : q[i] = q[j] => i = j} : k \in 0..n}

----------------------------------------------------------------------------
(* readResources, extractGrammarExtensions, getGrammerExtensions, getCanLanguageIds *)

\* Array.prototype.filter
FilterNotIcons(dirs) == SelectSeq(dirs, LAMBDA v : v # "icons")

\* readResources(extensionPath): one {packageJSON, extensionPath} per directory but icons
ReadResources(extensionPath, dirs) ==
    LET kept == FilterNotIcons(dirs) IN
    [i \in 1..Len(kept) |->
        [packageJSON |-> ResourcePackageJSON(kept[i]),
         extensionPath |-> extensionPath \o "/resources/" \o kept[i]]]

\* packageJSON.contributes && packageJSON.contributes.grammars
ContributesGrammars(packageJSON) ==
    Truthy(packageJSON.contributes) /\ Truthy(packageJSON.contributes.v.grammars)

\* packageJSON.contributes.languages || []
ContributesLanguages(packageJSON) ==
    IF Truthy(packageJSON.contributes.v.languages) THEN packageJSON.contributes.v.languages.v ELSE <<>>

RECURSIVE ExtractFrom(_, _)
\* the map step of extractGrammarExtensions over the filtered packages, languageId++ per language
ExtractFrom(inner, languageId) ==
    IF inner = <<>> THEN [grammarExtensions |-> <<>>, languageId |-> languageId]
    ELSE LET contributesLanguages == ContributesLanguages(Head(inner).packageJSON)
             languages == [k \in 1..Len(contributesLanguages) |->
                              [id |-> languageId + k - 1, name |-> contributesLanguages[k].id]]
             first == [languages |-> languages,
                       value |-> Head(inner).packageJSON.contributes.v.grammars.v,
                       extensionLocation |-> Head(inner).extensionPath]
             rest == ExtractFrom(Tail(inner), languageId + Len(contributesLanguages))
         IN [grammarExtensions |-> <<first>> \o rest.grammarExtensions,
             languageId |-> rest.languageId]

\* extractGrammarExtensions(inner, languageId)
ExtractGrammarExtensions(inner, languageId) ==
    ExtractFrom(SelectSeq(inner, LAMBDA e : ContributesGrammars(e.packageJSON)), languageId)

\* a chaining that numbers the bundled packages from the first identifier again
GetGrammerExtensionsRestart(all, dirs) ==
    LET first == ExtractGrammarExtensions(all, FirstLanguageId)
        inner == ReadResources(CtxExtensionPath, dirs)
        resourceGrammars == ExtractGrammarExtensions(inner, FirstLanguageId).grammarExtensions
    IN first.grammarExtensions \o resourceGrammars

\* a chaining that puts the bundled packages before the installed ones
GetGrammerExtensionsBundledFirst(all, dirs) ==
    LET first == ExtractGrammarExtensions(all, FirstLanguageId)
        inner == ReadResources(CtxExtensionPath, dirs)
        resourceGrammars == ExtractGrammarExtensions(inner, first.languageId).grammarExtensions
    IN resourceGrammars \o first.grammarExtensions

\* getGrammerExtensions(): installed extensions first, bundled resources appended
GetGrammerExtensions(all, dirs) ==
    LET first == ExtractGrammarExtensions(all, FirstLanguageId)
        inner == ReadResources(CtxExtensionPath, dirs)
        resourceGrammars == ExtractGrammarExtensions(inner, first.languageId).grammarExtensions
    IN first.grammarExtensions \o resourceGrammars

\* a copy that keeps repeated elements
DedupeKeepsAll(list, acc) == acc \o list

RECURSIVE Dedupe(_, _)
\* [...new Set(list)]: the first occurrence of every element, in order
Dedupe(list, acc) ==
    IF list = <<>> THEN acc
    ELSE IF ArrIncludes(acc, Head(list)) THEN Dedupe(Tail(list), acc)
    ELSE Dedupe(Tail(list), Append(acc, Head(list)))

RECURSIVE ReduceLanguages(_, _)
\* the reduce of getCanLanguageIds: prev.concat(the truthy grammar.language of item.value)
ReduceLanguages(grammarExtensions, prev) ==
    IF grammarExtensions = <<>> THEN prev
    ELSE LET value == Head(grammarExtensions).value
             lang == SelectSeq([j \in 1..Len(value) |-> value[j].language], TruthyStr)
         IN ReduceLanguages(Tail(grammarExtensions), prev \o lang)

BlackLanguage == <<"log", "Log", "code-runner-output", "markdown">>

\* getCanLanguageIds() for the grammar extensions getGrammerExtensions returned
GetCanLanguageIds(grammarExtensions) ==
    LET collected == ReduceLanguages(grammarExtensions, <<>>)
        pushed == collected \o <<"typescript", "typescriptreact", "javascript", "javascriptreact">>
        allowed == SelectSeq(pushed, LAMBDA v : ~ArrIncludes(BlackLanguage, v))
    IN Dedupe(allowed, <<>>)

----------------------------------------------------------------------------
(* TMLanguageRegistration and TMScopeRegistry *)

\* the switch of the TMLanguageRegistration constructor: kinds it knows
KnownTokenType(kind) == kind \in {"string", "other", "comment"}

StandardTokenTypeOf(kind) ==
    IF kind = "string" THEN StandardTokenTypeString
    ELSE IF kind = "other" THEN StandardTokenTypeOther
    ELSE StandardTokenTypeComment

\* new TMLanguageRegistration(scopeName, grammarLocation, embeddedLanguages, tokenTypes)
\* (every embedded-language value of the world is a string, so none is skipped)
TMLanguageRegistration(scopeName, grammarLocation, embeddedLanguages, tokenTypes) ==
    [scopeName |-> scopeName,
     grammarLocation |-> grammarLocation,
     embeddedLanguages |-> IF Truthy(embeddedLanguages) THEN embeddedLanguages.v ELSE EmptyObj,
     tokenTypes |-> IF Truthy(tokenTypes)
                    THEN [sc \in {k \in DOMAIN tokenTypes.v : KnownTokenType(tokenTypes.v[k])} |->
                              StandardTokenTypeOf(tokenTypes.v[sc])]
                    ELSE EmptyObj]

\* a register that keeps an existing registration (first write wins)
RegisterKeepExisting(registry, scopeName, grammarLocation, embeddedLanguages, tokenTypes) ==
    IF scopeName \in DOMAIN registry THEN registry
    ELSE ObjSet(registry, scopeName,
                TMLanguageRegistration(scopeName, grammarLocation, embeddedLanguages, tokenTypes))

\* TMScopeRegistry.register: the existing registration is only looked at, then overwritten
Register(registry, scopeName, grammarLocation, embeddedLanguages, tokenTypes) ==
    ObjSet(registry, scopeName,
           TMLanguageRegistration(scopeName, grammarLocation, embeddedLanguages, tokenTypes))

\* TMScopeRegistry.getLanguageRegistration: the registration or null
GetLanguageRegistration(registry, scopeName) ==
    LET found == ObjGet(registry, scopeName)
    IN IF Truthy(found) THEN found ELSE Null

\* TMScopeRegistry.getGrammarLocation: the location or ""
GetGrammarLocation(registry, scopeName) ==
    LET data == GetLanguageRegistration(registry, scopeName)
    IN IF Truthy(data) THEN data.v.grammarLocation ELSE ""

----------------------------------------------------------------------------
(* TextMateService: registration *)

\* the fields of a TextMateService the constructor fills
NewService ==
    [scopeRegistry |-> EmptyObj, injections |-> EmptyObj, injectedEmbeddedLanguages |-> EmptyObj,
     languageToScope |-> EmptyObj, languages |-> EmptyObj]

\* a skip test that only knows the literal list
ShouldSkipExactOnly(scopeName) == ArrIncludes(PROBLEMATIC_INJECTIONS, scopeName)

\* shouldSkip of _handleGrammarExtensionPointUser
ShouldSkip(scopeName) ==
    \/ ArrIncludes(PROBLEMATIC_INJECTIONS, scopeName)
    \/ StrIncludes(scopeName, "documentation.injection")
    \/ JsdocInjectionTest(scopeName)

RECURSIVE PushToEach(_, _, _)
\* for (injectScope of targets) { (lists[injectScope] ||= []).push(item) }
PushToEach(lists, targets, item) ==
    IF targets = <<>> THEN lists
    ELSE LET injectScope == Head(targets)
             old == IF Truthy(ObjGet(lists, injectScope)) THEN lists[injectScope] ELSE <<>>
         IN PushToEach(ObjSet(lists, injectScope, Append(old, item)), Tail(targets), item)

\* a push at the front of the list of the target
RECURSIVE PushToEachFront(_, _, _)
PushToEachFront(lists, targets, item) ==
    IF targets = <<>> THEN lists
    ELSE LET injectScope == Head(targets)
             old == IF Truthy(ObjGet(lists, injectScope)) THEN lists[injectScope] ELSE <<>>
         IN PushToEachFront(ObjSet(lists, injectScope, <<item>> \o old), Tail(targets), item)

\* an injectTo loop that puts the new injecting scope first
AddInjectionsFront(lists, targets, scopeName) == PushToEachFront(lists, targets, scopeName)

\* an injectTo loop that first drops what the scope injected before
AddInjectionsReplacing(lists, targets, scopeName) ==
    PushToEach([t \in DOMAIN lists |-> SelectSeq(lists[t], LAMBDA inj : inj # scopeName)],
               targets, scopeName)

\* the injectTo loop of _handleGrammarExtensionPointUser
AddInjections(lists, targets, scopeName) == PushToEach(lists, targets, scopeName)

\* _handleGrammarExtensionPointUser(extensionLocation, syntax) applied to the service fields s
HandleGrammarExtensionPointUser(s, extensionLocation, syntax) ==
    LET grammarLocation == PathJoin(extensionLocation, syntax.path) IN
    IF ShouldSkip(syntax.scopeName) THEN s
    ELSE [scopeRegistry |->
              Register(s.scopeRegistry, syntax.scopeName, grammarLocation,
                       syntax.embeddedLanguages, syntax.tokenTypes),
          injections |->
              IF Truthy(syntax.injectTo)
              THEN AddInjections(s.injections, syntax.injectTo.v, syntax.scopeName)
              ELSE s.injections,
          injectedEmbeddedLanguages |->
              IF Truthy(syntax.injectTo) /\ Truthy(syntax.embeddedLanguages)
              THEN PushToEach(s.injectedEmbeddedLanguages, syntax.injectTo.v,
                              syntax.embeddedLanguages.v)
              ELSE s.injectedEmbeddedLanguages,
          languageToScope |->
              IF TruthyStr(syntax.language)
              THEN ObjSet(s.languageToScope, syntax.language, syntax.scopeName)
              ELSE s.languageToScope,
          languages |-> s.languages]

RECURSIVE SetLanguages(_, _)
\* languages.forEach(language => this._languages.set(language.name, language.id))
SetLanguages(table, languages) ==
    IF languages = <<>> THEN table
    ELSE SetLanguages(ObjSet(table, Head(languages).name, Head(languages).id), Tail(languages))

RECURSIVE HandleGrammars(_, _, _)
\* the inner loop of _parseExtensions over extensions[i].value
HandleGrammars(s, extensionLocation, grammars) ==
    IF grammars = <<>> THEN s
    ELSE HandleGrammars(HandleGrammarExtensionPointUser(s, extensionLocation, Head(grammars)),
                        extensionLocation, Tail(grammars))

RECURSIVE ParseExtensions(_, _)
\* _parseExtensions(extensions) started on the service fields s
ParseExtensions(s, extensions) ==
    IF extensions = <<>> THEN s
    ELSE LET e == Head(extensions)
             s1 == [s EXCEPT !.languages = SetLanguages(s.languages, e.languages)]
         IN ParseExtensions(HandleGrammars(s1, e.extensionLocation, e.value), Tail(extensions))

----------------------------------------------------------------------------
(* TextMateService: the Registry options and the synchronous part of _createGrammar *)

\* a getInjections without the source.ts / source.tsx override
GetInjectionsNoOverride(injections, scopeName) ==
    LET list == ObjGet(injections, scopeName) IN
    IF ~Truthy(list) THEN Undefined ELSE Def(list.v)

\* a getInjections that answers an unknown target with an empty list
GetInjectionsEmptyList(injections, scopeName) ==
    IF scopeName = "source.ts" \/ scopeName = "source.tsx" THEN Undefined
    ELSE LET list == ObjGet(injections, scopeName) IN
         IF ~Truthy(list) THEN Def(<<>>) ELSE Def(list.v)

\* the filter callback of getInjections: TRUE keeps the injecting scope
InjectionFilter(inj) ==
    /\ ~ArrIncludes(PROBLEMATIC_INJECTIONS, inj)
    /\ ~(StrIncludes(inj, "documentation.injection") \/ JsdocInjectionTest(inj))

\* the getInjections option of the Registry
GetInjections(injections, scopeName) ==
    IF scopeName = "source.ts" \/ scopeName = "source.tsx" THEN Undefined
    ELSE LET list == ObjGet(injections, scopeName) IN
         IF ~Truthy(list) THEN Undefined
         ELSE LET filtered == SelectSeq(list.v, InjectionFilter)
              IN IF Len(filtered) > 0 THEN Def(filtered) ELSE Undefined

\* a resolution that keeps an unresolvable scope, as plain text
ResolveEmbeddedLanguagesKeepAll(table, embeddedLanguages) ==
    [scope \in DOMAIN embeddedLanguages |->
        IF embeddedLanguages[scope] \in DOMAIN table THEN table[embeddedLanguages[scope]]
        ELSE LanguageIdPlainText]

\* _resolveEmbeddedLanguages: scopes whose language has a (truthy) id in the table
ResolveEmbeddedLanguages(table, embeddedLanguages) ==
    [scope \in {k \in DOMAIN embeddedLanguages :
                    /\ Truthy(ObjGet(table, embeddedLanguages[k]))
                    /\ table[embeddedLanguages[k]] # 0} |->
        table[embeddedLanguages[scope]]]

RECURSIVE OverlayAll(_, _)
\* an overlay that writes only the scopes the map does not hold yet
OverlayAllKeepsExisting(base, maps) ==
    IF maps = <<>> THEN base
    ELSE OverlayAll(base @@ Head(maps), Tail(maps))

\* for (injected of maps) for (scope of keys) base[scope] = injected[scope]
OverlayAll(base, maps) ==
    IF maps = <<>> THEN base
    ELSE OverlayAll(Head(maps) @@ base, Tail(maps))

\* this._languageToScope.get(modeId) || ""
ScopeNameOf(s, modeId) ==
    LET found == ObjGet(s.languageToScope, modeId)
    IN IF Truthy(found) /\ TruthyStr(found.v) THEN found.v ELSE ""

\* a _createGrammar that leaves the injected embedded languages out for the scopes whose
\* injections getInjections suppresses
CreateGrammarConfigurationSuppressed(s, modeId) ==
    LET scopeName == ScopeNameOf(s, modeId)
        languageRegistration == GetLanguageRegistration(s.scopeRegistry, scopeName)
    IN IF ~Truthy(languageRegistration) THEN Undefined
       ELSE LET own == ResolveEmbeddedLanguages(s.languages, languageRegistration.v.embeddedLanguages)
                raw == ObjGet(s.injectedEmbeddedLanguages, scopeName)
                embeddedLanguages ==
                    IF Truthy(raw) /\ scopeName \notin {"source.ts", "source.tsx"}
                    THEN OverlayAll(own, [i \in 1..Len(raw.v) |->
                                             ResolveEmbeddedLanguages(s.languages, raw.v[i])])
                    ELSE own
                found == ObjGet(s.languages, modeId)
            IN Def([scopeName |-> scopeName,
                    languageId |-> IF Truthy(found) /\ found.v # 0 THEN found.v
                                   ELSE LanguageIdPlainText,
                    embeddedLanguages |-> embeddedLanguages,
                    tokenTypes |-> languageRegistration.v.tokenTypes,
                    containsEmbeddedLanguages |-> DOMAIN embeddedLanguages # {}])

\* _createGrammar up to its first await: null, or what it hands to the Registry
CreateGrammarConfiguration(s, modeId) ==
    LET scopeName == ScopeNameOf(s, modeId)
        languageRegistration == GetLanguageRegistration(s.scopeRegistry, scopeName)
    IN IF ~Truthy(languageRegistration) THEN Undefined
       ELSE LET own == ResolveEmbeddedLanguages(s.languages, languageRegistration.v.embeddedLanguages)
                raw == ObjGet(s.injectedEmbeddedLanguages, scopeName)
                embeddedLanguages ==
                    IF Truthy(raw)
                    THEN OverlayAll(own, [i \in 1..Len(raw.v) |->
                                             ResolveEmbeddedLanguages(s.languages, raw.v[i])])
                    ELSE own
                found == ObjGet(s.languages, modeId)
            IN Def([scopeName |-> scopeName,
                    languageId |-> IF Truthy(found) /\ found.v # 0 THEN found.v
                                   ELSE LanguageIdPlainText,
                    embeddedLanguages |-> embeddedLanguages,
                    tokenTypes |-> languageRegistration.v.tokenTypes,
                    containsEmbeddedLanguages |-> DOMAIN embeddedLanguages # {}])

----------------------------------------------------------------------------
(* State *)

VARIABLES
    extensionsAll,              \* extensions.all: the installed extensions
    resourceDirs,               \* the entries of <extensionPath>/resources
    phase,                      \* "constructing" while the constructor runs, then "ready"
    extI, gramJ,                \* the loop indices i and j of _parseExtensions (gramJ = 0: before the languages)
    scopeRegistry,              \* TMScopeRegistry._scopeNameToLanguageRegistration
    injections,                 \* TextMateService._injections
    injectedEmbeddedLanguages,  \* TextMateService._injectedEmbeddedLanguages
    languageToScope,            \* TextMateService._languageToScope
    languages,                  \* TextMateService._languages
    grammarRegistry,            \* TextMateService._grammarRegistry: null or the id of the Registry
    registriesCreated,          \* how many times new Registry(...) ran
    injectionsQuery,            \* the last getInjections call of the Registry and its result
    calls,                      \* the createGrammar requests: position, argument, locals, outcome
    onigLibPromise,             \* the module variable onigLibPromise: 0 (null) or the call that created the promise
    onigInit,                   \* per doLoadOnigasm call: the state of the initialisation (promise) it started
    onigCalls,                  \* per doLoadOnigasm call: position, awaited promise, promise state at arrival, outcome
    rawLoads                    \* per loadGrammar call: scope name, location, readFile callback, state of the returned promise

vars == <<extensionsAll, resourceDirs, phase, extI, gramJ, scopeRegistry, injections,
          injectedEmbeddedLanguages, languageToScope, languages, grammarRegistry,
          registriesCreated, injectionsQuery, calls, onigLibPromise, onigInit, onigCalls,
          rawLoads>>

worldVars == <<extensionsAll, resourceDirs>>

serviceVars == <<scopeRegistry, injections, injectedEmbeddedLanguages, languageToScope, languages>>

asyncVars == <<calls, onigLibPromise, onigInit, onigCalls, rawLoads>>

\* the service fields as one record
Service ==
    [scopeRegistry |-> scopeRegistry, injections |-> injections,
     injectedEmbeddedLanguages |-> injectedEmbeddedLanguages,
     languageToScope |-> languageToScope, languages |-> languages]

\* the argument of the constructor: what getGrammerExtensions() returned
Extensions == GetGrammerExtensions(extensionsAll, resourceDirs)

CallIds == 1..MaxCalls

OnigCallIds == 1..MaxOnigCalls

LoadIds == 1..MaxLoads

\* language names, with and without a grammar in the worlds
ModeIds == {"typescript", "javascript", "jsdoc", "vue", "plaintext"}

\* the scope names the Registry asks injections for
QueryScopes == {"source.ts", "source.tsx", "source.js", "source.vue", "source.python"}

IdleCall ==
    [pc |-> "idle", modeId |-> "", configuration |-> Undefined, registry |-> 0, load |-> 0,
     outcome |-> ""]

IdleLoad == [scopeName |-> "", location |-> "", callback |-> "none", promise |-> "none"]

IdleOnigCall == [pc |-> "idle", awaits |-> 0, arrived |-> "", outcome |-> ""]

AsyncInit ==
    /\ calls = [c \in CallIds |-> IdleCall]
    /\ onigLibPromise = 0
    /\ onigInit = [k \in OnigCallIds |-> "none"]
    /\ onigCalls = [k \in OnigCallIds |-> IdleOnigCall]
    /\ rawLoads = [l \in LoadIds |-> IdleLoad]

\* new TextMateService(extensions) has run up to the call of _parseExtensions
Init ==
    /\ \E n \in 0..MaxPackages :
          /\ extensionsAll \in DistinctSeqs(InstalledExtensions, n)
          /\ resourceDirs \in DistinctSeqs(ResourceDirs, MaxPackages - n)
    /\ phase = "constructing"
    /\ extI = 1
    /\ gramJ = 0
    /\ scopeRegistry = NewService.scopeRegistry
    /\ injections = NewService.injections
    /\ injectedEmbeddedLanguages = NewService.injectedEmbeddedLanguages
    /\ languageToScope = NewService.languageToScope
    /\ languages = NewService.languages
    /\ grammarRegistry = Undefined
    /\ registriesCreated = 0
    /\ injectionsQuery = Undefined
    /\ AsyncInit

----------------------------------------------------------------------------
(* The constructor: _parseExtensions, one loop step per action *)

\* extensions[i].languages.forEach(...), then on to the grammars (or the next extension)
ParseExtensionLanguages ==
    /\ phase = "constructing"
    /\ extI <= Len(Extensions)
    /\ gramJ = 0
    /\ languages' = SetLanguages(languages, Extensions[extI].languages)
    /\ IF Len(Extensions[extI].value) = 0
       THEN extI' = extI + 1 /\ gramJ' = 0
       ELSE extI' = extI /\ gramJ' = 1
    /\ UNCHANGED <<worldVars, phase, scopeRegistry, injections, injectedEmbeddedLanguages,
                   languageToScope, grammarRegistry, registriesCreated, injectionsQuery, asyncVars>>

\* this._handleGrammarExtensionPointUser(extensions[i].extensionLocation, grammars[j])
HandleGrammar ==
    /\ phase = "constructing"
    /\ extI <= Len(Extensions)
    /\ gramJ >= 1
    /\ LET e == Extensions[extI]
           s == HandleGrammarExtensionPointUser(Service, e.extensionLocation, e.value[gramJ])
       IN /\ scopeRegistry' = s.scopeRegistry
          /\ injections' = s.injections
          /\ injectedEmbeddedLanguages' = s.injectedEmbeddedLanguages
          /\ languageToScope' = s.languageToScope
          /\ languages' = s.languages
          /\ IF gramJ = Len(e.value)
             THEN extI' = extI + 1 /\ gramJ' = 0
             ELSE extI' = extI /\ gramJ' = gramJ + 1
    /\ UNCHANGED <<worldVars, phase, grammarRegistry, registriesCreated, injectionsQuery, asyncVars>>

\* the loop of _parseExtensions is over and the constructor returns
ConstructorReturn ==
    /\ phase = "constructing"
    /\ extI > Len(Extensions)
    /\ phase' = "ready"
    /\ UNCHANGED <<worldVars, extI, gramJ, serviceVars, grammarRegistry, registriesCreated,
                   injectionsQuery, asyncVars>>

----------------------------------------------------------------------------
(* The Registry and its getInjections option *)

\* a test that never finds the Registry cached
GrammarRegistryMissingAlways == TRUE

\* if (!this._grammarRegistry)
GrammarRegistryMissing == ~Truthy(grammarRegistry)

\* _getOrCreateGrammarRegistry(), reached by _createGrammar for a language with a descriptor
GetOrCreateGrammarRegistry ==
    /\ phase = "ready"
    /\ \E modeId \in ModeIds : Truthy(CreateGrammarConfiguration(Service, modeId))
    /\ IF GrammarRegistryMissing
       THEN /\ grammarRegistry' = Def(registriesCreated + 1)
            /\ registriesCreated' = registriesCreated + 1
       ELSE UNCHANGED <<grammarRegistry, registriesCreated>>
    /\ UNCHANGED <<worldVars, phase, extI, gramJ, serviceVars, injectionsQuery, asyncVars>>

\* a getInjections that disables the injections of source.ts and source.tsx by emptying
\* their lists
GetInjectionsCallClearsList ==
    /\ Truthy(grammarRegistry)
    /\ \E scopeName \in QueryScopes :
          /\ injectionsQuery' = Def([scopeName |-> scopeName,
                                     result |-> GetInjections(injections, scopeName)])
          /\ injections' = IF scopeName \in {"source.ts", "source.tsx"} /\ scopeName \in DOMAIN injections
                           THEN ObjSet(injections, scopeName, <<>>)
                           ELSE injections
    /\ UNCHANGED <<worldVars, phase, extI, gramJ, scopeRegistry, injectedEmbeddedLanguages,
                   languageToScope, languages, grammarRegistry, registriesCreated, asyncVars>>

\* the Registry calls its option getInjections(scopeName)
GetInjectionsCall ==
    /\ Truthy(grammarRegistry)
    /\ \E scopeName \in QueryScopes :
          injectionsQuery' = Def([scopeName |-> scopeName,
                                  result |-> GetInjections(injections, scopeName)])
    /\ UNCHANGED <<worldVars, phase, extI, gramJ, serviceVars, grammarRegistry,
                   registriesCreated, asyncVars>>

Next ==
    \/ ParseExtensionLanguages
    \/ HandleGrammar
    \/ ConstructorReturn
    \/ GetOrCreateGrammarRegistry
    \/ GetInjectionsCall

Spec == Init /\ [][Next]_vars

----------------------------------------------------------------------------
(* createGrammar requests: one action per stretch of code between two awaits *)

\* the no-grammar branch of _createGrammar throwing, as the line commented out did
NoGrammarOutcomeThrow == "rejected"

\* the languages createGrammar is asked for
RequestModeIds == {"typescript", "javascript", "jsdoc", "vue"}

\* the no-grammar branch of _createGrammar: return null
NoGrammarOutcome == "null"

\* requests are numbered in the order they are made
NextCall(c) == calls[c].pc = "idle" /\ (IF c = 1 THEN TRUE ELSE calls[c - 1].pc # "idle")

\* createGrammar(modeId) runs _createGrammar up to its first await: the null return, or
\* the configuration and the call of _getOrCreateGrammarRegistry()
CreateGrammarCall(c) ==
    /\ phase = "ready"
    /\ NextCall(c)
    /\ \E modeId \in RequestModeIds :
          LET configuration == CreateGrammarConfiguration(Service, modeId) IN
          IF ~Truthy(configuration)
          THEN /\ calls' = [calls EXCEPT ![c] = [@ EXCEPT !.pc = "returned", !.modeId = modeId,
                                                         !.outcome = NoGrammarOutcome]]
               /\ UNCHANGED <<grammarRegistry, registriesCreated>>
          ELSE /\ IF GrammarRegistryMissing
                  THEN /\ grammarRegistry' = Def(registriesCreated + 1)
                       /\ registriesCreated' = registriesCreated + 1
                  ELSE UNCHANGED <<grammarRegistry, registriesCreated>>
               /\ calls' = [calls EXCEPT ![c] = [@ EXCEPT !.pc = "awaitRegistry", !.modeId = modeId,
                                                         !.configuration = configuration,
                                                         !.registry = grammarRegistry'.v]]
    /\ UNCHANGED <<worldVars, phase, extI, gramJ, serviceVars, injectionsQuery,
                   onigLibPromise, onigInit, onigCalls, rawLoads>>

\* scope names a grammar may refer to (include, injection target) besides the requested
\* one; no package of the world registers source.css
ReferencedScopes == {"source.css", "source.js"}

\* a loadGrammar option that starts the file read whatever the location is
LoadGrammarOptionAlwaysReads(registry, scopeName) ==
    [scopeName |-> scopeName, location |-> GetGrammarLocation(registry, scopeName),
     callback |-> "waiting", promise |-> "pending"]

\* the loadGrammar option up to its return: Promise.resolve(null) when the scope has no
\* location, else a pending promise whose executor called fs.readFile(location, ...)
LoadGrammarOption(registry, scopeName) ==
    LET location == GetGrammarLocation(registry, scopeName)
    IN IF ~TruthyStr(location)
       THEN [scopeName |-> scopeName, location |-> location,
             callback |-> "none", promise |-> "fulfilled:null"]
       ELSE [scopeName |-> scopeName, location |-> location,
             callback |-> "waiting", promise |-> "pending"]

\* what the file read hands to the callback: an error, a grammar text parseRawGrammar
\* accepts, or a text it throws on
ReadFileResults == {"error", "parsable", "unparsable"}

\* the callback of fs.readFile: e(null) on an error, c(rawGrammar) when the text parses;
\* when parseRawGrammar throws, the exception leaves the callback and neither c nor e is
\* called, so the promise stays pending
ReadFileCallback(load, result) ==
    IF result = "error" THEN [load EXCEPT !.callback = "returned", !.promise = "rejected"]
    ELSE IF result = "parsable" THEN [load EXCEPT !.callback = "returned", !.promise = "fulfilled"]
    ELSE [load EXCEPT !.callback = "threw"]

\* loads are numbered in the order the option is called
NextLoad(l) == rawLoads[l].promise = "none" /\ (IF l = 1 THEN TRUE ELSE rawLoads[l - 1].promise # "none")

\* after await this._getOrCreateGrammarRegistry(): grammarRegistry.loadGrammarWithConfiguration(
\* scopeName, ...); the Registry calls its loadGrammar option for the scope, or uses
\* what an earlier call of the option for the scope gave it
CreateGrammarLoad(c) ==
    /\ calls[c].pc = "awaitRegistry"
    /\ \E l \in LoadIds :
          /\ \/ /\ NextLoad(l)
                /\ rawLoads' = [rawLoads EXCEPT ![l] =
                                   LoadGrammarOption(scopeRegistry, calls[c].configuration.v.scopeName)]
             \/ /\ rawLoads[l].scopeName = calls[c].configuration.v.scopeName
                /\ UNCHANGED rawLoads
          /\ calls' = [calls EXCEPT ![c] = [@ EXCEPT !.pc = "awaitLoad", !.load = l]]
    /\ UNCHANGED <<worldVars, phase, extI, gramJ, serviceVars, grammarRegistry, registriesCreated,
                   injectionsQuery, onigLibPromise, onigInit, onigCalls>>

\* while it loads a grammar, the Registry calls its loadGrammar option for a scope the
\* grammar refers to
LoadGrammarReferenced(l) ==
    /\ \E c \in CallIds : calls[c].pc = "awaitLoad"
    /\ NextLoad(l)
    /\ \E scopeName \in ReferencedScopes :
          rawLoads' = [rawLoads EXCEPT ![l] = LoadGrammarOption(scopeRegistry, scopeName)]
    /\ UNCHANGED <<worldVars, phase, extI, gramJ, serviceVars, grammarRegistry, registriesCreated,
                   injectionsQuery, calls, onigLibPromise, onigInit, onigCalls>>

\* fs.readFile calls back
LoadGrammarReadFileCallback(l) ==
    /\ rawLoads[l].callback = "waiting"
    /\ \E result \in ReadFileResults :
          rawLoads' = [rawLoads EXCEPT ![l] = ReadFileCallback(rawLoads[l], result)]
    /\ UNCHANGED <<worldVars, phase, extI, gramJ, serviceVars, grammarRegistry, registriesCreated,
                   injectionsQuery, calls, onigLibPromise, onigInit, onigCalls>>

\* the promise of the loadGrammar option has settled and the Registry settles the load:
\* _createGrammar returns its result, or the rejection spreads (the Registry may also fail
\* after the raw grammar arrived)
CreateGrammarLoadSettles(c) ==
    /\ calls[c].pc = "awaitLoad"
    /\ rawLoads[calls[c].load].promise \in {"fulfilled", "rejected"}
    /\ \E outcome \in {"grammar", "rejected"} :
          /\ rawLoads[calls[c].load].promise = "rejected" => outcome = "rejected"
          /\ calls' = [calls EXCEPT ![c] = [@ EXCEPT !.pc = "returned", !.outcome = outcome]]
    /\ UNCHANGED <<worldVars, phase, extI, gramJ, serviceVars, grammarRegistry, registriesCreated,
                   injectionsQuery, onigLibPromise, onigInit, onigCalls, rawLoads>>

\* createGrammar resumes after await this._createGrammar(modeId) and completes
CreateGrammarReturn(c) ==
    /\ calls[c].pc = "returned"
    /\ calls' = [calls EXCEPT ![c] = [@ EXCEPT !.pc = "done"]]
    /\ UNCHANGED <<worldVars, phase, extI, gramJ, serviceVars, grammarRegistry, registriesCreated,
                   injectionsQuery, onigLibPromise, onigInit, onigCalls, rawLoads>>

----------------------------------------------------------------------------
(* doLoadOnigasm: the getOnigLib option of the Registry *)

RejectedStates == {"rejected:require", "rejected:readFile", "rejected:loadWASM"}

SettledStates == RejectedStates \cup {"fulfilled"}

\* what a call finds in onigLibPromise when it arrives
PromiseState ==
    IF onigLibPromise = 0 THEN "null"
    ELSE IF onigInit[onigLibPromise] \in RejectedStates THEN "rejected"
    ELSE IF onigInit[onigLibPromise] = "fulfilled" THEN "fulfilled"
    ELSE "pending"

\* a cache test that only counts a library that has loaded
OnigLibPromiseTruthyOnceLoaded == onigLibPromise # 0 /\ onigInit[onigLibPromise] = "fulfilled"

\* a cache test that forgets a failed initialisation
OnigLibPromiseTruthyUnlessFailed == onigLibPromise # 0 /\ onigInit[onigLibPromise] \notin RejectedStates

\* if (onigLibPromise): the promise is cached, pending or settled
OnigLibPromiseTruthy == onigLibPromise # 0

\* calls are numbered in the order they are made
NextOnigCall(k) == onigCalls[k].pc = "idle" /\ (IF k = 1 THEN TRUE ELSE onigCalls[k - 1].pc # "idle")

\* doLoadOnigasm(): return the cached promise, or start the initialisation (the require and
\* the call of readFile run at once) and cache its promise
DoLoadOnigasm(k) ==
    /\ Truthy(grammarRegistry)
    /\ NextOnigCall(k)
    /\ IF OnigLibPromiseTruthy
       THEN /\ onigCalls' = [onigCalls EXCEPT ![k] = [@ EXCEPT !.pc = "awaiting",
                                 !.awaits = onigLibPromise, !.arrived = PromiseState]]
            /\ UNCHANGED <<onigLibPromise, onigInit>>
       ELSE /\ \E started \in {"readFile", "rejected:require"} :
                  onigInit' = [onigInit EXCEPT ![k] = started]
            /\ onigLibPromise' = k
            /\ onigCalls' = [onigCalls EXCEPT ![k] = [@ EXCEPT !.pc = "awaiting",
                                 !.awaits = k, !.arrived = PromiseState]]
    /\ UNCHANGED <<worldVars, phase, extI, gramJ, serviceVars, grammarRegistry, registriesCreated,
                   injectionsQuery, calls, rawLoads>>

\* fs.promises.readFile settles: on to loadWASM, or the promise is rejected
OnigReadFileSettles(k) ==
    /\ onigInit[k] = "readFile"
    /\ \E next \in {"loadWASM", "rejected:readFile"} : onigInit' = [onigInit EXCEPT ![k] = next]
    /\ UNCHANGED <<worldVars, phase, extI, gramJ, serviceVars, grammarRegistry, registriesCreated,
                   injectionsQuery, calls, onigLibPromise, onigCalls, rawLoads>>

\* loadWASM settles: the promise is fulfilled with the library, or rejected
OnigLoadWASMSettles(k) ==
    /\ onigInit[k] = "loadWASM"
    /\ \E next \in {"fulfilled", "rejected:loadWASM"} : onigInit' = [onigInit EXCEPT ![k] = next]
    /\ UNCHANGED <<worldVars, phase, extI, gramJ, serviceVars, grammarRegistry, registriesCreated,
                   injectionsQuery, calls, onigLibPromise, onigCalls, rawLoads>>

\* the promise a call returned settles as the promise it awaits did
OnigCallSettles(k) ==
    /\ onigCalls[k].pc = "awaiting"
    /\ onigInit[onigCalls[k].awaits] \in SettledStates
    /\ onigCalls' = [onigCalls EXCEPT ![k] = [@ EXCEPT !.pc = "done",
                         !.outcome = onigInit[onigCalls[k].awaits]]]
    /\ UNCHANGED <<worldVars, phase, extI, gramJ, serviceVars, grammarRegistry, registriesCreated,
                   injectionsQuery, calls, onigLibPromise, onigInit, rawLoads>>

\* the worlds the requests are run in
RequestWorlds ==
    {<< <<>>, <<>> >>,
     << <<JavascriptBasics, StyledComponents>>, <<>> >>,
     << <<JsdocExtra>>, <<"typescript">> >>,
     << <<VueTools>>, <<"javascript">> >>,
     << <<JavascriptBasics, InlineSql>>, <<>> >>}

\* the service as its constructor leaves it, in one of the request worlds
InitReady ==
    /\ \E world \in RequestWorlds : extensionsAll = world[1] /\ resourceDirs = world[2]
    /\ phase = "ready"
    /\ extI = Len(Extensions) + 1
    /\ gramJ = 0
    /\ LET s == ParseExtensions(NewService, Extensions)
       IN /\ scopeRegistry = s.scopeRegistry
          /\ injections = s.injections
          /\ injectedEmbeddedLanguages = s.injectedEmbeddedLanguages
          /\ languageToScope = s.languageToScope
          /\ languages = s.languages
    /\ grammarRegistry = Undefined
    /\ registriesCreated = 0
    /\ injectionsQuery = Undefined
    /\ AsyncInit

\* createGrammar up to the call of the Registry, and the pattern-engine initialisation
NextRequests ==
    \/ \E c \in CallIds :
          \/ CreateGrammarCall(c)
          \/ CreateGrammarReturn(c)
    \/ \E k \in OnigCallIds :
          \/ DoLoadOnigasm(k)
          \/ OnigReadFileSettles(k)
          \/ OnigLoadWASMSettles(k)
          \/ OnigCallSettles(k)

SpecRequests == InitReady /\ [][NextRequests]_vars

\* createGrammar requests to their end, and the loadGrammar and getInjections options of
\* the Registry
NextLoads ==
    \/ \E c \in CallIds :
          \/ CreateGrammarCall(c)
          \/ CreateGrammarLoad(c)
          \/ CreateGrammarLoadSettles(c)
          \/ CreateGrammarReturn(c)
    \/ \E l \in LoadIds :
          \/ LoadGrammarReferenced(l)
          \/ LoadGrammarReadFileCallback(l)

SpecLoads == InitReady /\ [][NextLoads]_vars

\* the worlds the Registry's options are run in: injections into source.ts, source.tsx,
\* source.js and source.vue
OptionWorlds ==
    {<< <<TypescriptBasics, StyledComponents>>, <<>> >>,
     << <<VueTools>>, <<"javascript">> >>}

\* the service as its constructor leaves it, in one of the option worlds
InitOptions ==
    /\ \E world \in OptionWorlds : extensionsAll = world[1] /\ resourceDirs = world[2]
    /\ phase = "ready"
    /\ extI = Len(Extensions) + 1
    /\ gramJ = 0
    /\ LET s == ParseExtensions(NewService, Extensions)
       IN /\ scopeRegistry = s.scopeRegistry
          /\ injections = s.injections
          /\ injectedEmbeddedLanguages = s.injectedEmbeddedLanguages
          /\ languageToScope = s.languageToScope
          /\ languages = s.languages
    /\ grammarRegistry = Undefined
    /\ registriesCreated = 0
    /\ injectionsQuery = Undefined
    /\ AsyncInit

\* createGrammar requests to their end, the Registry calling the loadGrammar option for the
\* requested scope and the getInjections option for any scope
NextOptions ==
    \/ \E c \in CallIds :
          \/ CreateGrammarCall(c)
          \/ CreateGrammarLoad(c)
          \/ CreateGrammarLoadSettles(c)
          \/ CreateGrammarReturn(c)
    \/ \E l \in LoadIds : LoadGrammarReadFileCallback(l)
    \/ GetInjectionsCall

SpecOptions == InitOptions /\ [][NextOptions]_vars

----------------------------------------------------------------------------
(* What the constructor has processed so far, read off the world and the loop indices *)

\* the extensions before extI, and of extension extI the grammars before gramJ
ProcessedExtensions ==
    [i \in 1..(IF extI <= Len(Extensions) /\ gramJ >= 1 THEN extI ELSE extI - 1) |->
        IF i < extI THEN Extensions[i]
        ELSE [languages |-> Extensions[i].languages,
              value |-> SubSeq(Extensions[i].value, 1, gramJ - 1),
              extensionLocation |-> Extensions[i].extensionLocation]]

RECURSIVE FlattenGrammars(_)
\* the grammar contributions of the extensions in processing order, each with its location
FlattenGrammars(extensions) ==
    IF extensions = <<>> THEN <<>>
    ELSE LET e == Head(extensions)
         IN [j \in 1..Len(e.value) |->
                [extensionLocation |-> e.extensionLocation, syntax |-> e.value[j]]]
            \o FlattenGrammars(Tail(extensions))

ProcessedGrammars == FlattenGrammars(ProcessedExtensions)

RECURSIVE Occurs(_, _)
\* pat occurs in s (stated without the operators that model the code)
Occurs(s, pat) ==
    IF Len(s) < Len(pat) THEN FALSE
    ELSE SubSeq(s, 1, Len(pat)) = pat \/ Occurs(Tail(s), pat)

\* the denylist as the claims state it: the two literal names, any name containing
\* "documentation.injection", any name matching /jsdoc.*injection/
OnDenylist(name) ==
    \/ name \in {"documentation.injection.ts", "documentation.injection.js.jsx"}
    \/ Occurs(name, "documentation.injection")
    \/ \E k \in 1..Len(name) :
          /\ Occurs(SubSeq(name, 1, k), "jsdoc")
          /\ Occurs(SubSeq(name, k + 1, Len(name)), "injection")
          /\ ~Occurs(name, "\n") /\ ~Occurs(name, "\r")

\* the register calls made so far, in order: the contributions that were not skipped
RegisterCalls == SelectSeq(ProcessedGrammars, LAMBDA g : ~OnDenylist(g.syntax.scopeName))

\* the index in registerCalls of the last call for scopeName (0: none)
LastRegisterCall(registerCalls, scopeName) ==
    LET hits == {i \in 1..Len(registerCalls) : registerCalls[i].syntax.scopeName = scopeName}
    IN IF hits = {} THEN 0 ELSE CHOOSE i \in hits : \A j \in hits : j <= i

\* every scope name a contribution of the world may carry or target
WorldScopes ==
    {"source.ts", "source.tsx", "source.js", "source.vue", "source.python", "styled.injection",
     "inline.sql", "inline.sql.comment", "jsdoc.inject", "text.html.markdown", "text.log",
     "documentation.injection.ts", "documentation.injection.js.jsx",
     "text.jsdoc.type.injection", "my.documentation.injection.vue", "vue.pug", "vue.html"}

----------------------------------------------------------------------------
(* C1 *)

\* C1: after any sequence of register calls, getLanguageRegistration(s) is the descriptor
\* (grammar location, embedded languages, token types) of the most recent register call for s,
\* and null for a scope no call named: a re-registration replaces the whole descriptor and
\* touches no other scope.
C1_LastRegistrationWins ==
    LET registerCalls == RegisterCalls IN
    \A scopeName \in WorldScopes :
        LET last == LastRegisterCall(registerCalls, scopeName)
            got == GetLanguageRegistration(scopeRegistry, scopeName)
        IN IF last = 0 THEN got = Null
           ELSE LET call == registerCalls[last] IN
                /\ Truthy(got)
                /\ got.v.scopeName = scopeName
                /\ got.v.grammarLocation = PathJoin(call.extensionLocation, call.syntax.path)
                /\ got.v.embeddedLanguages =
                      (IF Truthy(call.syntax.embeddedLanguages)
                       THEN call.syntax.embeddedLanguages.v ELSE EmptyObj)
                /\ got.v.tokenTypes =
                      TMLanguageRegistration(scopeName, "", Undefined, call.syntax.tokenTypes).tokenTypes

\* source.ts was registered twice from different locations with different embedded languages
\* and token types, and source.tsx, registered in between, is still there
C1_Witness ==
    /\ phase = "ready"
    /\ \E i, j \in 1..Len(RegisterCalls) :
          /\ i < j
          /\ RegisterCalls[i].syntax.scopeName = "source.ts"
          /\ RegisterCalls[j].syntax.scopeName = "source.ts"
          /\ PathJoin(RegisterCalls[i].extensionLocation, RegisterCalls[i].syntax.path)
                # PathJoin(RegisterCalls[j].extensionLocation, RegisterCalls[j].syntax.path)
          /\ RegisterCalls[i].syntax.tokenTypes # RegisterCalls[j].syntax.tokenTypes
          /\ RegisterCalls[i].syntax.embeddedLanguages # RegisterCalls[j].syntax.embeddedLanguages
          /\ \E k \in (i + 1)..(j - 1) : RegisterCalls[k].syntax.scopeName = "source.tsx"
    /\ Truthy(GetLanguageRegistration(scopeRegistry, "source.tsx"))

----------------------------------------------------------------------------
(* C2 *)

\* modeId has a grammar descriptor: a language-to-scope mapping whose scope is registered
HasDescriptor(modeId) ==
    /\ modeId \in DOMAIN languageToScope
    /\ languageToScope[modeId] \in DOMAIN scopeRegistry

\* C2: createGrammar for a language without a registered grammar descriptor completes with
\* null, it does not raise; and the call creates no grammar Registry and starts no
\* pattern-engine initialisation
C2_NoGrammarIsNull ==
    /\ [](\A c \in CallIds :
            calls[c].pc # "idle" /\ ~HasDescriptor(calls[c].modeId)
               => calls[c].pc \in {"returned", "done"} /\ calls[c].outcome = "null")
    /\ [][\A c \in CallIds :
            calls[c].pc = "idle" /\ calls'[c].pc # "idle" /\ ~HasDescriptor(calls'[c].modeId)
               => UNCHANGED <<grammarRegistry, registriesCreated, onigLibPromise, onigInit>>]_vars
    /\ []((\A c \in CallIds : calls[c].pc # "idle" => ~HasDescriptor(calls[c].modeId))
            => /\ grammarRegistry = Undefined
               /\ registriesCreated = 0
               /\ onigLibPromise = 0
               /\ \A k \in OnigCallIds : onigInit[k] = "none")

\* in a world with grammars, two requests for languages without a descriptor (one a language
\* of a skipped contribution) have completed with null, and there is still no Registry
C2_Witness ==
    /\ Len(Extensions) > 0
    /\ \E c, d \in CallIds :
          /\ calls[c].modeId = "jsdoc" /\ calls[d].modeId = "typescript"
          /\ ~HasDescriptor("jsdoc") /\ ~HasDescriptor("typescript")
          /\ calls[c].pc = "done" /\ calls[c].outcome = "null"
          /\ calls[d].pc = "done" /\ calls[d].outcome = "null"
    /\ grammarRegistry = Undefined
    /\ registriesCreated = 0

----------------------------------------------------------------------------
(* C3 *)

\* C3 as stated: once the service is built, createGrammar does not take the null path for
\* any language of getCanLanguageIds()
C3_CanLanguagesHaveGrammar ==
    phase = "ready" =>
        \A i \in 1..Len(GetCanLanguageIds(Extensions)) :
            Truthy(CreateGrammarConfiguration(Service, GetCanLanguageIds(Extensions)[i]))

----------------------------------------------------------------------------
(* C4 *)

\* C4: in every state getInjections answers undefined for source.ts and source.tsx, whatever
\* is registered as injecting into them, before or after an earlier query
C4_TsInjectionsDisabled ==
    /\ GetInjections(injections, "source.ts") = Undefined
    /\ GetInjections(injections, "source.tsx") = Undefined
    /\ (Truthy(injectionsQuery) /\ injectionsQuery.v.scopeName \in {"source.ts", "source.tsx"})
          => injectionsQuery.v.result = Undefined

\* injections into source.ts and source.tsx are registered and the Registry asked for them
C4_Witness ==
    /\ Truthy(ObjGet(injections, "source.ts"))
    /\ Truthy(ObjGet(injections, "source.tsx"))
    /\ injectionsQuery = Def([scopeName |-> "source.tsx", result |-> Undefined])

----------------------------------------------------------------------------
(* C5 *)

\* the extensions with the denylisted contributions taken out
WithoutDenylisted(extensions) ==
    [i \in 1..Len(extensions) |->
        [languages |-> extensions[i].languages,
         value |-> SelectSeq(extensions[i].value, LAMBDA g : ~OnDenylist(g.scopeName)),
         extensionLocation |-> extensions[i].extensionLocation]]

\* C5: registering a denylisted contribution is the same as never registering it: the
\* service state (scope registry, injection lists, injected embedded-language lists,
\* language-to-scope map, language table), and with it every getInjections and createGrammar
\* result, equals that of the same contributions without the denylisted ones
C5_DenylistedAsNeverRegistered ==
    LET ref == ParseExtensions(NewService, WithoutDenylisted(ProcessedExtensions))
    IN /\ Service = ref
       /\ \A scopeName \in WorldScopes :
             GetInjections(injections, scopeName) = GetInjections(ref.injections, scopeName)
       /\ \A modeId \in ModeIds :
             CreateGrammarConfiguration(Service, modeId) = CreateGrammarConfiguration(ref, modeId)

\* denylisted contributions of all three kinds (literal, substring, pattern), carrying a
\* language, embedded languages and injectTo, have been processed
C5_Witness ==
    /\ phase = "ready"
    /\ \E i, j, k \in 1..Len(ProcessedGrammars) :
          /\ ProcessedGrammars[i].syntax.scopeName = "documentation.injection.js.jsx"
          /\ TruthyStr(ProcessedGrammars[i].syntax.language)
          /\ Truthy(ProcessedGrammars[i].syntax.embeddedLanguages)
          /\ Truthy(ProcessedGrammars[i].syntax.injectTo)
          /\ ProcessedGrammars[j].syntax.scopeName = "my.documentation.injection.vue"
          /\ ProcessedGrammars[k].syntax.scopeName = "text.jsdoc.type.injection"
    /\ Truthy(ObjGet(injections, "source.js"))

----------------------------------------------------------------------------
(* C6 *)

\* C6: no list getInjections returns, for any target, holds a scope name of the denylist
C6_NoDenylistedInjection ==
    /\ \A scopeName \in WorldScopes :
          LET r == GetInjections(injections, scopeName)
          IN Truthy(r) => \A i \in 1..Len(r.v) : ~OnDenylist(r.v[i])
    /\ Truthy(injectionsQuery) /\ Truthy(injectionsQuery.v.result)
          => \A i \in 1..Len(injectionsQuery.v.result.v) : ~OnDenylist(injectionsQuery.v.result.v[i])

\* contributions of the denylist targeting source.js were processed, and the Registry got a
\* non-empty list for source.js
C6_Witness ==
    /\ \E i, j \in 1..Len(ProcessedGrammars) :
          /\ ProcessedGrammars[i].syntax.scopeName = "my.documentation.injection.vue"
          /\ ProcessedGrammars[j].syntax.scopeName = "documentation.injection.js.jsx"
    /\ Truthy(injectionsQuery)
    /\ injectionsQuery.v.scopeName = "source.js"
    /\ Truthy(injectionsQuery.v.result)

----------------------------------------------------------------------------
(* C7 *)

\* injection lists the filter of getInjections is tried on: all, some and none denylisted
FilterCases ==
    {<<"documentation.injection.ts">>,
     <<"text.jsdoc.type.injection", "my.documentation.injection.vue">>,
     <<"styled.injection", "documentation.injection.ts", "inline.sql">>,
     <<"inline.sql", "jsdoc.inject", "styled.injection">>}

\* C7: getInjections never returns an empty list: a target without registered injections
\* gets undefined, and so does a target whose candidates the filter removes altogether
C7_NeverEmptyList ==
    /\ \A scopeName \in WorldScopes :
          LET r == GetInjections(injections, scopeName)
          IN /\ Truthy(r) => Len(r.v) > 0
             /\ scopeName \notin DOMAIN injections => r = Undefined
    /\ Truthy(injectionsQuery) /\ Truthy(injectionsQuery.v.result)
          => Len(injectionsQuery.v.result.v) > 0
    /\ \A list \in FilterCases :
          LET r == GetInjections("source.js" :> list, "source.js")
          IN IF \A i \in 1..Len(list) : OnDenylist(list[i]) THEN r = Undefined
             ELSE Truthy(r) /\ Len(r.v) > 0

\* the Registry asked for a target nothing injects into, while other targets have injections
C7_Witness ==
    /\ DOMAIN injections # {}
    /\ "source.python" \notin DOMAIN injections
    /\ injectionsQuery = Def([scopeName |-> "source.python", result |-> Undefined])

----------------------------------------------------------------------------
(* C8 *)

RECURSIVE InjectorsInOrder(_, _)
\* the scope names of the register calls that name target in injectTo, in call order
\* (once per occurrence of target in injectTo)
InjectorsInOrder(registerCalls, target) ==
    IF registerCalls = <<>> THEN <<>>
    ELSE LET syntax == Head(registerCalls).syntax
             hits == IF Truthy(syntax.injectTo)
                     THEN SelectSeq(syntax.injectTo.v, LAMBDA t : t = target)
                     ELSE <<>>
         IN [k \in 1..Len(hits) |-> syntax.scopeName] \o InjectorsInOrder(Tail(registerCalls), target)

\* C8: for every target the injecting scope names are listed in registration order (order of
\* the extensions, then of the grammars within an extension): registration appends, and
\* what getInjections returns keeps the relative order of what it does not filter out
C8_RegistrationOrder ==
    /\ LET registerCalls == RegisterCalls IN
       \A target \in WorldScopes :
          LET expected == InjectorsInOrder(registerCalls, target)
          IN /\ ObjGet(injections, target) = (IF expected = <<>> THEN Undefined ELSE Def(expected))
             /\ target \notin {"source.ts", "source.tsx"}
                   => GetInjections(injections, target) =
                         (IF expected = <<>> THEN Undefined ELSE Def(expected))
    /\ \A list \in FilterCases :
          LET r == GetInjections("source.js" :> list, "source.js")
              kept == SelectSeq(list, LAMBDA n : ~OnDenylist(n))
          IN r = (IF kept = <<>> THEN Undefined ELSE Def(kept))

\* source.js has injecting scopes from two extensions, one of them with two grammars that
\* inject, and the Registry got the three in registration order
C8_Witness ==
    /\ phase = "ready"
    /\ Len(Extensions) = 2
    /\ injectionsQuery =
          Def([scopeName |-> "source.js",
               result |-> Def(<<"jsdoc.inject", "inline.sql", "inline.sql.comment">>)])

----------------------------------------------------------------------------
(* C9 *)

\* the calls of doLoadOnigasm whose initialisation was started
OnigInitsStarted == {k \in OnigCallIds : onigInit[k] # "none"}

\* C9: however calls of doLoadOnigasm interleave, the initialisation is started at most once,
\* by the first caller, and every caller (arriving before, during or after it) awaits that
\* one initialisation and gets its result
C9_InitialisedOnce ==
    /\ Cardinality(OnigInitsStarted) <= 1
    /\ OnigInitsStarted \subseteq {1}
    /\ \A k \in OnigCallIds :
          onigCalls[k].pc # "idle"
             => /\ OnigInitsStarted = {onigCalls[k].awaits}
                /\ onigCalls[k].awaits = onigLibPromise
                /\ onigCalls[k].pc = "done" => onigCalls[k].outcome = onigInit[onigLibPromise]
    /\ \A k, l \in OnigCallIds :
          onigCalls[k].pc = "done" /\ onigCalls[l].pc = "done"
             => onigCalls[k].outcome = onigCalls[l].outcome

\* three calls have completed with the library: the one that started the initialisation,
\* one that arrived while it was in flight and one that arrived after it completed
C9_Witness ==
    \E k, l, m \in OnigCallIds :
        /\ onigCalls[k].arrived = "null" /\ onigCalls[l].arrived = "pending"
        /\ onigCalls[m].arrived = "fulfilled"
        /\ \A n \in {k, l, m} : onigCalls[n].pc = "done" /\ onigCalls[n].outcome = "fulfilled"

----------------------------------------------------------------------------
(* C10 *)

\* C10: once the initialisation has failed, no call starts it again (the attempts stay at
\* one) and every call that arrives afterwards fails with that same failure
C10_FailureIsCached ==
    \A k \in OnigCallIds :
        onigInit[k] \in RejectedStates
           => /\ OnigInitsStarted = {k}
              /\ onigLibPromise = k
              /\ \A l \in OnigCallIds :
                    onigCalls[l].arrived = "rejected"
                       => /\ onigCalls[l].awaits = k
                          /\ onigCalls[l].pc \in {"awaiting", "done"}
                          /\ onigCalls[l].pc = "done" => onigCalls[l].outcome = onigInit[k]

\* the initialisation failed in loadWASM, and two calls that arrived after the failure have
\* completed with that failure
C10_Witness ==
    /\ onigInit[1] = "rejected:loadWASM"
    /\ \E l, m \in OnigCallIds :
          /\ l # m
          /\ \A n \in {l, m} :
                /\ onigCalls[n].arrived = "rejected"
                /\ onigCalls[n].pc = "done"
                /\ onigCalls[n].outcome = "rejected:loadWASM"

----------------------------------------------------------------------------
(* C11 *)

\* C11 as stated: once the grammar file of a load has turned out unparsable, the promise of
\* the load is settled as a failure, and every createGrammar request waiting for that load
\* can complete
C11_ParseFailureIsReported ==
    \A l \in LoadIds :
        rawLoads[l].callback = "threw"
           => /\ rawLoads[l].promise = "rejected"
              /\ \A c \in CallIds :
                    calls[c].pc = "awaitLoad" /\ calls[c].load = l
                       => ENABLED CreateGrammarLoadSettles(c)

----------------------------------------------------------------------------
(* C12 *)

\* the requests that resolved the descriptor of scopeName, resolved and merged its embedded
\* languages and asked the Registry to load it
CompilationsOf(scopeName) ==
    {c \in CallIds : /\ Truthy(calls[c].configuration)
                     /\ calls[c].configuration.v.scopeName = scopeName}

\* C12 as stated: whatever the number of createGrammar requests that resolve to a scope
\* name, sequential or concurrent, the compilation work for the scope is done at most once
C12_CompiledOncePerScope ==
    \A scopeName \in WorldScopes : Cardinality(CompilationsOf(scopeName)) <= 1

----------------------------------------------------------------------------
(* C13 *)

\* C13: for a scope name that was never registered, getLanguageRegistration answers null and
\* getGrammarLocation the empty location, and a call of the loadGrammar option for it is
\* resolved with null at once: no file is read, and no request or other load is touched
C13_UnknownScopeIsNotAnError ==
    /\ [](\A scopeName \in (WorldScopes \cup ReferencedScopes) \ DOMAIN scopeRegistry :
            /\ GetLanguageRegistration(scopeRegistry, scopeName) = Null
            /\ GetGrammarLocation(scopeRegistry, scopeName) = "")
    /\ [](\A l \in LoadIds :
            rawLoads[l].promise # "none" /\ rawLoads[l].scopeName \notin DOMAIN scopeRegistry
               => /\ rawLoads[l].promise = "fulfilled:null"
                  /\ rawLoads[l].callback = "none"
                  /\ rawLoads[l].location = "")
    /\ [][\A l \in LoadIds :
            rawLoads[l].promise = "none" /\ rawLoads'[l].promise # "none"
                                        /\ rawLoads'[l].scopeName \notin DOMAIN scopeRegistry
               => /\ \A k \in LoadIds \ {l} : rawLoads'[k] = rawLoads[k]
                  /\ UNCHANGED <<serviceVars, grammarRegistry, registriesCreated, calls>>]_vars

\* with grammars registered and a request waiting for the file of its grammar, the option
\* was called for source.css, which no package registers, and resolved with null
C13_Witness ==
    /\ DOMAIN scopeRegistry # {}
    /\ \E l, k \in LoadIds :
          /\ rawLoads[l].scopeName = "source.css"
          /\ rawLoads[l].promise = "fulfilled:null"
          /\ rawLoads[k].callback = "waiting"

----------------------------------------------------------------------------
(* C14 *)

\* the embedded-language maps the service resolves: those of the registered descriptors
\* and those injected into a scope
EmbeddedLanguageMaps ==
    {scopeRegistry[scopeName].embeddedLanguages : scopeName \in DOMAIN scopeRegistry}
    \cup UNION {{injectedEmbeddedLanguages[scopeName][i] :
                    i \in 1..Len(injectedEmbeddedLanguages[scopeName])} :
                 scopeName \in DOMAIN injectedEmbeddedLanguages}

\* C14: _resolveEmbeddedLanguages gives every scope whose language name is in the language
\* table the identifier of that name, drops exactly the scopes whose language name is not
\* in the table, and adds nothing
C14_ResolvesOrDrops ==
    \A map \in EmbeddedLanguageMaps :
        LET result == ResolveEmbeddedLanguages(languages, map) IN
        /\ DOMAIN result = {scope \in DOMAIN map : map[scope] \in DOMAIN languages}
        /\ \A scope \in DOMAIN result : result[scope] = languages[map[scope]]

\* a map with one scope whose language is in the table and one whose language is not
C14_Witness ==
    /\ phase = "ready"
    /\ \E map \in EmbeddedLanguageMaps :
          \E kept, dropped \in DOMAIN map :
              /\ map[kept] \in DOMAIN languages
              /\ map[dropped] \notin DOMAIN languages
              /\ DOMAIN ResolveEmbeddedLanguages(languages, map) = DOMAIN map \ {dropped}

----------------------------------------------------------------------------
(* C15 *)

RECURSIVE FlattenLanguages(_)
\* the language entries {id, name} of the extensions, in order
FlattenLanguages(extensions) ==
    IF extensions = <<>> THEN <<>>
    ELSE Head(extensions).languages \o FlattenLanguages(Tail(extensions))

\* the identifier given to name where it is declared first
FirstEncounterId(entries, name) ==
    LET first == CHOOSE i \in 1..Len(entries) :
                    /\ entries[i].name = name
                    /\ \A j \in 1..(i - 1) : entries[j].name # name
    IN entries[first].id

\* C15 as stated: in the service as built, every declared language name resolves to the
\* identifier of its first declaration, in the language table and as the language id of
\* its grammar
C15_FirstIdentifierIsKept ==
    phase = "ready" =>
        LET entries == FlattenLanguages(Extensions) IN
        /\ \A name \in DOMAIN languages : languages[name] = FirstEncounterId(entries, name)
        /\ \A modeId \in ModeIds \cap DOMAIN languages :
              LET configuration == CreateGrammarConfiguration(Service, modeId)
              IN Truthy(configuration)
                    => configuration.v.languageId = FirstEncounterId(entries, modeId)

----------------------------------------------------------------------------
(* C16 *)

RECURSIVE DeclaredLanguages(_)
\* the language names declared by the packages that contribute grammars, in order
DeclaredLanguages(inner) ==
    IF inner = <<>> THEN <<>>
    ELSE LET packageJSON == Head(inner).packageJSON
             declared == IF /\ Truthy(packageJSON.contributes)
                            /\ Truthy(packageJSON.contributes.v.grammars)
                            /\ Truthy(packageJSON.contributes.v.languages)
                         THEN packageJSON.contributes.v.languages.v
                         ELSE <<>>
         IN [i \in 1..Len(declared) |-> declared[i].id] \o DeclaredLanguages(Tail(inner))

\* entries are the declared names numbered start, start + 1, ...
NumberedFrom(entries, declared, start) ==
    /\ Len(entries) = Len(declared)
    /\ \A i \in 1..Len(entries) :
          entries[i].name = declared[i] /\ entries[i].id = start + i - 1

\* C16: extractGrammarExtensions numbers the declared languages of the packages that
\* contribute grammars sequentially from the start value and returns the next unused
\* value; chained as in getGrammerExtensions (from 2, then from the returned value) the
\* identifiers of all entries, installed and bundled, are distinct and at least 2
C16_SequentialIdentifiers ==
    /\ \A start \in FirstLanguageId..(FirstLanguageId + 2) :
          LET r == ExtractGrammarExtensions(extensionsAll, start)
              declared == DeclaredLanguages(extensionsAll)
          IN /\ NumberedFrom(FlattenLanguages(r.grammarExtensions), declared, start)
             /\ r.languageId = start + Len(declared)
    /\ LET entries == FlattenLanguages(Extensions)
           installed == DeclaredLanguages(extensionsAll)
           bundled == DeclaredLanguages(ReadResources(CtxExtensionPath, resourceDirs))
       IN /\ NumberedFrom(entries, installed \o bundled, FirstLanguageId)
          /\ \A i, j \in 1..Len(entries) : entries[i].id = entries[j].id => i = j
          /\ \A i \in 1..Len(entries) : entries[i].id >= 2

\* an installed package with two languages, numbered 2 and 3, and a bundled package whose
\* language is numbered after them
C16_Witness ==
    /\ Len(DeclaredLanguages(extensionsAll)) = 2
    /\ Len(FlattenLanguages(Extensions)) = 3
    /\ FlattenLanguages(Extensions)[3].id = FirstLanguageId + 2
    /\ phase = "ready"

----------------------------------------------------------------------------
(* C17 *)

\* the extension lives in the resources directory of this extension
IsBundled(extension) ==
    LET prefix == CtxExtensionPath \o "/resources/"
        location == extension.extensionLocation
    IN Len(location) >= Len(prefix) /\ SubSeq(location, 1, Len(prefix)) = prefix

\* the grammar locations the extensions chosen by from give for scopeName
LocationsFor(extensions, scopeName, from) ==
    UNION {{PathJoin(extensions[i].extensionLocation, extensions[i].value[j].path) :
               j \in {j \in 1..Len(extensions[i].value) :
                         extensions[i].value[j].scopeName = scopeName}} :
           i \in {i \in 1..Len(extensions) : from[i]}}

\* C17: in what getGrammerExtensions returns no bundled package comes before an installed
\* one, and in the service built from it a scope name contributed both by an installed
\* extension and by a bundled package has the location of the bundled grammar
C17_BundledTakesPrecedence ==
    LET extensions == Extensions
        bundled == [i \in 1..Len(extensions) |-> IsBundled(extensions[i])]
        installed == [i \in 1..Len(extensions) |-> ~IsBundled(extensions[i])]
    IN /\ \A i, j \in 1..Len(extensions) : i < j /\ bundled[i] => bundled[j]
       /\ phase = "ready" =>
             \A scopeName \in WorldScopes :
                 LET fromInstalled == LocationsFor(extensions, scopeName, installed)
                     fromBundled == LocationsFor(extensions, scopeName, bundled)
                 IN fromInstalled # {} /\ fromBundled # {}
                       => /\ GetGrammarLocation(scopeRegistry, scopeName) \in fromBundled
                          /\ GetGrammarLocation(scopeRegistry, scopeName) \notin fromInstalled

\* source.ts comes from an installed extension and from the bundled typescript package,
\* and the service has the bundled file
C17_Witness ==
    /\ phase = "ready"
    /\ \E i \in 1..Len(extensionsAll) : extensionsAll[i] = TypescriptBasics
    /\ \E i \in 1..Len(resourceDirs) : resourceDirs[i] = "typescript"
    /\ GetGrammarLocation(scopeRegistry, "source.ts")
          = "/self/resources/typescript/syntaxes/TypeScript.tmLanguage.json"

----------------------------------------------------------------------------
(* C18 *)

\* C18: whatever the grammar extensions are, the list of getCanLanguageIds has no entry
\* twice, has none of log, Log, code-runner-output and markdown, and has typescript,
\* typescriptreact, javascript and javascriptreact
C18_CanLanguagesWellFormed ==
    LET canLanguages == GetCanLanguageIds(Extensions) IN
    /\ \A i, j \in 1..Len(canLanguages) : canLanguages[i] = canLanguages[j] => i = j
    /\ \A i \in 1..Len(canLanguages) :
          canLanguages[i] \notin {"log", "Log", "code-runner-output", "markdown"}
    /\ \A language \in {"typescript", "typescriptreact", "javascript", "javascriptreact"} :
          \E i \in 1..Len(canLanguages) : canLanguages[i] = language

\* grammars for markdown and log (both blacklisted) and for typescript and typescriptreact
\* (both also added explicitly) are installed, and the list is the four explicit languages
C18_Witness ==
    /\ \E i, j \in 1..Len(extensionsAll) :
          extensionsAll[i] = Markdown /\ extensionsAll[j] = TypescriptBasics
    /\ GetCanLanguageIds(Extensions)
          = <<"typescript", "typescriptreact", "javascript", "javascriptreact">>
    /\ phase = "ready"

----------------------------------------------------------------------------
(* C23 *)

\* the scope keys the embedded-language maps of the world use
EmbeddedScopeKeys ==
    {"meta.tag.tsx", "meta.embedded.css", "meta.embedded.scss", "comment.block.documentation",
     "meta.embedded.x", "meta.embedded.block.javascript", "meta.template", "meta.style",
     "meta.script"}

\* the language name resolves: the language table holds an identifier for it
Resolves(name) == name \in DOMAIN languages

\* the register calls that contribute an entry for key to the target's injected maps, and
\* whose entry resolves
InjectedEntries(registerCalls, target, key) ==
    {i \in 1..Len(registerCalls) :
        LET syntax == registerCalls[i].syntax
        IN /\ Truthy(syntax.injectTo)
           /\ \E t \in 1..Len(syntax.injectTo.v) : syntax.injectTo.v[t] = target
           /\ Truthy(syntax.embeddedLanguages)
           /\ key \in DOMAIN syntax.embeddedLanguages.v
           /\ Resolves(syntax.embeddedLanguages.v[key])}

\* the entry the claims give the merged map for key: the last registered injected entry
\* that resolves, else the own entry of the scope's descriptor if it resolves, else none
MergedEntry(registerCalls, scopeName, key) ==
    LET injected == InjectedEntries(registerCalls, scopeName, key)
        last == LastRegisterCall(registerCalls, scopeName)
        own == IF last = 0 THEN Undefined ELSE registerCalls[last].syntax.embeddedLanguages
    IN IF injected # {}
       THEN LET i == CHOOSE i \in injected : \A j \in injected : j <= i
            IN Def(languages[registerCalls[i].syntax.embeddedLanguages.v[key]])
       ELSE IF Truthy(own) /\ key \in DOMAIN own.v /\ Resolves(own.v[key])
       THEN Def(languages[own.v[key]])
       ELSE Undefined

\* C23: the embedded-language map createGrammar hands to compilation is the descriptor's
\* own resolved map overlaid with the resolved maps injected into the scope, in
\* registration order: for every scope key the entry is that of the last registered
\* injection that resolves the key, else the descriptor's own resolved entry, else absent
C23_OverlayInRegistrationOrder ==
    LET registerCalls == RegisterCalls
    IN \A c \in CallIds :
          Truthy(calls[c].configuration) =>
             LET configuration == calls[c].configuration.v
             IN /\ DOMAIN configuration.embeddedLanguages \subseteq EmbeddedScopeKeys
                /\ \A key \in EmbeddedScopeKeys :
                      ObjGet(configuration.embeddedLanguages, key) =
                         MergedEntry(registerCalls, configuration.scopeName, key)

\* a request for vue: the descriptor maps meta.template to html, the first injection to
\* pug, the later one to vue, and the configuration holds the identifier of vue
C23_Witness ==
    \E c \in CallIds :
       /\ calls[c].modeId = "vue"
       /\ Truthy(calls[c].configuration)
       /\ {"vue", "html", "pug"} \subseteq DOMAIN languages
       /\ languages["vue"] \notin {languages["html"], languages["pug"]}
       /\ Cardinality(InjectedEntries(RegisterCalls, "source.vue", "meta.template")) = 2
       /\ calls[c].configuration.v.embeddedLanguages["meta.template"] = languages["vue"]

----------------------------------------------------------------------------
(* C24 *)

\* C24: the containsEmbeddedLanguages flag of a request is true exactly when the merged
\* resolved map has an entry: some scope key is resolved by an injection registered for
\* the scope or by the descriptor itself; with no such key the flag is false
C24_FlagIffMergedMapNonEmpty ==
    LET registerCalls == RegisterCalls
    IN \A c \in CallIds :
          Truthy(calls[c].configuration) =>
             LET configuration == calls[c].configuration.v
             IN configuration.containsEmbeddedLanguages =
                   (\E key \in EmbeddedScopeKeys :
                       Truthy(MergedEntry(registerCalls, configuration.scopeName, key)))

\* a request for javascript: the descriptor of source.js names css, an injection into
\* source.js names typescript, no package declares either language, and the flag is false
C24_Witness ==
    LET registerCalls == RegisterCalls
        last == LastRegisterCall(registerCalls, "source.js")
    IN \E c \in CallIds :
          /\ calls[c].modeId = "javascript"
          /\ Truthy(calls[c].configuration)
          /\ last # 0
          /\ Truthy(registerCalls[last].syntax.embeddedLanguages)
          /\ DOMAIN registerCalls[last].syntax.embeddedLanguages.v # {}
          /\ Truthy(ObjGet(injectedEmbeddedLanguages, "source.js"))
          /\ \E i \in 1..Len(injectedEmbeddedLanguages["source.js"]) :
                DOMAIN injectedEmbeddedLanguages["source.js"][i] # {}
          /\ calls[c].configuration.v.containsEmbeddedLanguages = FALSE

----------------------------------------------------------------------------
(* C25 *)

\* the requests that reached _getOrCreateGrammarRegistry: those with a configuration
ReachedCompilation == {c \in CallIds : Truthy(calls[c].configuration)}

\* C25: the Registry is created at most once whatever the interleaving of the requests;
\* every request that reaches compilation is handed that one Registry (with its initial
\* state); and it exists exactly when some request has reached compilation: the
\* constructor leaves it absent and the first such request creates it
C25_RegistryCreatedOnceLazily ==
    /\ registriesCreated <= 1
    /\ \A c \in ReachedCompilation :
          /\ Truthy(grammarRegistry)
          /\ calls[c].registry = grammarRegistry.v
    /\ \A c, d \in ReachedCompilation : calls[c].registry = calls[d].registry
    /\ Truthy(grammarRegistry) <=> ReachedCompilation # {}
    /\ registriesCreated = (IF ReachedCompilation # {} THEN 1 ELSE 0)

\* two requests reached compilation, the first is past its await and loading while the
\* second arrived, and one Registry exists
C25_Witness ==
    /\ Cardinality(ReachedCompilation) = 2
    /\ \E c, d \in ReachedCompilation :
          /\ c # d
          /\ calls[c].pc = "awaitLoad"
          /\ calls[d].pc = "awaitRegistry"
    /\ registriesCreated = 1

----------------------------------------------------------------------------
(* C26 *)

\* C26: once the constructor has returned, no step of createGrammar, of the getInjections
\* option or of the loadGrammar option changes the scope registry, the injection lists,
\* the injected embedded-language lists, the language table or the language-to-scope
\* map; and two createGrammar requests for the same language compute the same outcome of
\* the descriptor lookup and the same scopeName, languageId, embedded-language map and
\* containsEmbeddedLanguages flag
C26_RequestsLeaveRegistrationsAlone ==
    [][/\ phase = "ready" => UNCHANGED serviceVars
       /\ \A c, d \in CallIds :
             (calls'[c].pc # "idle" /\ calls'[d].pc # "idle" /\ calls'[c].modeId = calls'[d].modeId)
                => calls'[c].configuration = calls'[d].configuration]_vars

\* two requests for the same language have their configurations, the second made after
\* the first completed, a grammar file was read and the Registry asked for injections
C26_Witness ==
    /\ \E c, d \in CallIds :
          /\ c # d
          /\ calls[c].modeId = calls[d].modeId
          /\ calls[c].pc = "done"
          /\ Truthy(calls[c].configuration)
          /\ Truthy(calls[d].configuration)
    /\ \E l \in LoadIds : rawLoads[l].promise = "fulfilled"
    /\ Truthy(injectionsQuery)
    /\ Truthy(injectionsQuery.v.result)

----------------------------------------------------------------------------
(* C27 *)

\* C27: in every reachable state every scope name held in an injection list is registered
\* in the scope registry and is not on the denylist, and no injection list is empty; so
\* the filter of getInjections removes nothing, and for a target other than source.ts and
\* source.tsx getInjections answers with exactly the registered list
C27_ListsHoldRegisteredAllowedScopes ==
    /\ \A target \in DOMAIN injections :
          /\ injections[target] # <<>>
          /\ \A i \in 1..Len(injections[target]) :
                /\ injections[target][i] \in DOMAIN scopeRegistry
                /\ ~OnDenylist(injections[target][i])
          /\ SelectSeq(injections[target], InjectionFilter) = injections[target]
          /\ target \notin {"source.ts", "source.tsx"}
                => GetInjections(injections, target) = Def(injections[target])
    /\ (Truthy(injectionsQuery) /\ injectionsQuery.v.scopeName \notin {"source.ts", "source.tsx"})
          => injectionsQuery.v.result = ObjGet(injections, injectionsQuery.v.scopeName)

\* the Registry asked for the injections of source.js, into which two scopes inject, and
\* was answered with the whole list
C27_Witness ==
    /\ Truthy(injectionsQuery)
    /\ injectionsQuery.v.scopeName = "source.js"
    /\ Truthy(injectionsQuery.v.result)
    /\ Len(injectionsQuery.v.result.v) >= 2
    /\ injectionsQuery.v.result.v = injections["source.js"]

----------------------------------------------------------------------------
(* C28 *)

\* every list of the dictionary is still there and starts with what it held
OnlyGrows(old, new) ==
    \A target \in DOMAIN old :
       /\ target \in DOMAIN new
       /\ Len(old[target]) <= Len(new[target])
       /\ SubSeq(new[target], 1, Len(old[target])) = old[target]

\* how many times the register calls name target in the injectTo of a contribution that
\* satisfies test
InjectToCount(registerCalls, target, test(_)) ==
    Cardinality({kt \in (1..Len(registerCalls)) \X (1..3) :
                    LET syntax == registerCalls[kt[1]].syntax
                    IN /\ test(syntax)
                       /\ Truthy(syntax.injectTo)
                       /\ kt[2] <= Len(syntax.injectTo.v)
                       /\ syntax.injectTo.v[kt[2]] = target})

\* the lengths of the lists are those of the register calls made so far: one entry of
\* the injection list per call of the scope that names the target, whatever later calls
\* of the scope say, and one injected map per such call that has embedded languages
ListsCountRegisterCalls ==
    LET registerCalls == RegisterCalls
    IN \A target \in WorldScopes :
          /\ \A scopeName \in WorldScopes :
                Cardinality({i \in 1..(IF target \in DOMAIN injections
                                       THEN Len(injections[target]) ELSE 0) :
                                injections[target][i] = scopeName})
                   = InjectToCount(registerCalls, target, LAMBDA syntax : syntax.scopeName = scopeName)
          /\ (IF target \in DOMAIN injectedEmbeddedLanguages
              THEN Len(injectedEmbeddedLanguages[target]) ELSE 0)
                = InjectToCount(registerCalls, target, LAMBDA syntax : Truthy(syntax.embeddedLanguages))

\* C28: the injection lists and the injected embedded-language lists only grow: no step
\* removes or replaces an entry, a registration that overwrites a descriptor included; a
\* scope registered twice with the same target is twice in the target's list, and a scope
\* registered again without injectTo is still in the lists of its earlier targets
C28_InjectionListsOnlyGrow ==
    /\ [][/\ OnlyGrows(injections, injections')
          /\ OnlyGrows(injectedEmbeddedLanguages, injectedEmbeddedLanguages')]_vars
    /\ []ListsCountRegisterCalls

\* vue.pug was registered twice with the target source.vue and is twice in its list;
\* vue.html was registered with that target and then again without injectTo, and is still
\* in the list, with the embedded languages of its first registration
C28_Witness ==
    LET registerCalls == RegisterCalls
        last == LastRegisterCall(registerCalls, "vue.html")
    IN /\ phase = "ready"
       /\ last # 0
       /\ ~Truthy(registerCalls[last].syntax.injectTo)
       /\ "source.vue" \in DOMAIN injections
       /\ injections["source.vue"] = <<"vue.pug", "vue.html", "vue.pug">>
       /\ Len(injectedEmbeddedLanguages["source.vue"]) = 2
       /\ "meta.script" \in DOMAIN injectedEmbeddedLanguages["source.vue"][2]

----------------------------------------------------------------------------
(* C29 *)

\* the resolvable entries the maps injected into scopeName hold for key, as identifiers
InjectedIdentifiers(scopeName, key) ==
    IF scopeName \notin DOMAIN injectedEmbeddedLanguages THEN {}
    ELSE {languages[injectedEmbeddedLanguages[scopeName][i][key]] :
             i \in {j \in 1..Len(injectedEmbeddedLanguages[scopeName]) :
                       /\ key \in DOMAIN injectedEmbeddedLanguages[scopeName][j]
                       /\ Resolves(injectedEmbeddedLanguages[scopeName][j][key])}}

\* C29: for source.ts and source.tsx getInjections answers undefined, yet the embedded
\* languages injected into these scopes still enter the configuration of createGrammar:
\* every scope key an injected map resolves is in the configuration with an injected
\* identifier, and containsEmbeddedLanguages is then true
C29_SuppressionSparesEmbeddedLanguages ==
    /\ (Truthy(injectionsQuery) /\ injectionsQuery.v.scopeName \in {"source.ts", "source.tsx"})
          => injectionsQuery.v.result = Undefined
    /\ \A c \in CallIds :
          (Truthy(calls[c].configuration)
              /\ calls[c].configuration.v.scopeName \in {"source.ts", "source.tsx"})
          => LET configuration == calls[c].configuration.v
             IN \A key \in EmbeddedScopeKeys :
                   InjectedIdentifiers(configuration.scopeName, key) # {}
                      => /\ key \in DOMAIN configuration.embeddedLanguages
                         /\ configuration.embeddedLanguages[key]
                               \in InjectedIdentifiers(configuration.scopeName, key)
                         /\ configuration.containsEmbeddedLanguages

\* styled.injection injects into source.ts: the Registry asked for the injections of
\* source.ts and got undefined, and a request for typescript, whose descriptor has no
\* embedded languages of its own, holds the injected css and the flag set
C29_Witness ==
    /\ "source.ts" \in DOMAIN injections
    /\ injections["source.ts"] # <<>>
    /\ Truthy(injectionsQuery)
    /\ injectionsQuery.v.scopeName = "source.ts"
    /\ injectionsQuery.v.result = Undefined
    /\ \E c \in CallIds :
          /\ calls[c].modeId = "typescript"
          /\ Truthy(calls[c].configuration)
          /\ calls[c].configuration.v.scopeName = "source.ts"
          /\ DOMAIN scopeRegistry["source.ts"].embeddedLanguages = {}
          /\ "css" \in DOMAIN languages
          /\ calls[c].configuration.v.embeddedLanguages["meta.embedded.css"] = languages["css"]
          /\ calls[c].configuration.v.containsEmbeddedLanguages

====
